---- MODULE Spec2Model ----
(***************************************************************************)
(* Model of the Wayland client session of Vase                            *)
(* (src/src/wayland_client/mod.rs): the State struct, the Dispatch         *)
(* handlers, init_xdg_surface, draw and the WaylandClient::run loop,       *)
(* together with the compositor as the source of the events.               *)
(*                                                                         *)
(* Requests the client issues are appended to the log reqs, in the order   *)
(* the code issues them.  Object handles are the ids the log gives them.   *)
(***************************************************************************)
EXTENDS Integers, Sequences, FiniteSets

VARIABLES
    state,   \* the State struct (running, base_surface, buffer, wm_base, xdg_surface, configured)
    reqs,    \* every request sent on the connection so far, oldest first
    queue,   \* the events of the batch blocking_dispatch is delivering, oldest first
    pc,      \* "run" (in the loop of WaylandClient::run), "end" (run returned),
             \* "panic" (a handler panicked); "draw", "drawn" for a call of draw alone;
             \* "measure", "measured" for the buffer geometry computed alone
    sent,    \* number of events the compositor has sent (source of names and serials)
    broken,  \* the connection has failed: blocking_dispatch returns Err
    size,    \* the (width, height) handed to draw
    file,    \* bytes of the temporary file draw wrote last
    geometry \* for the buffer geometry computed alone: the create_pool and
             \* create_buffer arguments and the number of pixels draw writes

vars == <<state, reqs, queue, pc, sent, broken, size, file, geometry>>

\* ------------------------------------------------------------------ bounds

MaxEvents == 5      \* events the compositor sends in one session
MaxBatch == 2       \* events one blocking_dispatch delivers
MaxDim == 7         \* largest width and height handed to draw on its own

\* ------------------------------------------------------------- vocabulary

None == <<>>
Some(x) == <<x>>
is_some(o) == o # None
is_none(o) == o = None
unwrap(o) == o[1]

Min(a, b) == IF a <= b THEN a ELSE b

\* The interfaces a compositor may announce: the four the registry handler
\* matches on, and one it does not.
Recognized == {"wl_compositor", "wl_shm", "wl_seat", "xdg_wm_base"}
Interfaces == Recognized \cup {"wl_output"}

\* The version a compositor advertises for each interface.
VersionOf(interface) ==
    CASE interface = "wl_compositor" -> 6
      [] interface = "wl_shm" -> 1
      [] interface = "wl_seat" -> 9
      [] interface = "xdg_wm_base" -> 5
      [] OTHER -> 4

\* Key codes a keyboard may report: the exit key, two other codes.
Keys == {0, 1, 2}
KeyStates == {"released", "pressed"}

\* wl_seat capability sets a seat may report.
CapabilitySets == {{"pointer"}, {"keyboard"}, {"pointer", "keyboard"}}

\* settings::SIZE and settings::NAME of the session.
SIZE == <<2, 2>>
NAME == "Vase"

\* ------------------------------------------------------------------- draw

U8(n) == n % 256

\* draw_pixel writing the channels in the order R, G, B, A.
draw_pixel_rgba(x, y, buf_x, buf_y) ==
    LET a == 255
        r == Min(((buf_x - x) * 255) \div buf_x, ((buf_y - y) * 255) \div buf_y)
        g == Min((x * 255) \div buf_x, ((buf_y - y) * 255) \div buf_y)
        b == Min(((buf_x - x) * 255) \div buf_x, (y * 255) \div buf_y)
    IN  <<U8(r), U8(g), U8(b), U8(a)>>

\* The channels scaled by 0x100 instead of 0xFF.
draw_channels_scale256(x, y, buf_x, buf_y) ==
    [a |-> 255,
     r |-> Min(((buf_x - x) * 256) \div buf_x, ((buf_y - y) * 256) \div buf_y),
     g |-> Min((x * 256) \div buf_x, ((buf_y - y) * 256) \div buf_y),
     b |-> Min(((buf_x - x) * 256) \div buf_x, (y * 256) \div buf_y)]

\* The values a, r, g, b of one iteration of the inner loop of draw, as u32,
\* before their conversion to bytes.
draw_channels(x, y, buf_x, buf_y) ==
    [a |-> 255,
     r |-> Min(((buf_x - x) * 255) \div buf_x, ((buf_y - y) * 255) \div buf_y),
     g |-> Min((x * 255) \div buf_x, ((buf_y - y) * 255) \div buf_y),
     b |-> Min(((buf_x - x) * 255) \div buf_x, (y * 255) \div buf_y)]

\* The iterations of draw: every x of 0..buf_x within every y of 0..buf_y.
draw_iterations(sz) == {<<x, y>> : x \in 0..(sz[1] - 1), y \in 0..(sz[2] - 1)}

\* The arithmetic faults of the u32 expressions of one iteration: a division
\* by zero, a subtraction below zero, a product above u32::MAX (0xFF times
\* more than 16843009).
draw_faults(x, y, buf_x, buf_y) ==
    (IF buf_x = 0 \/ buf_y = 0 THEN {"division by zero"} ELSE {})
        \cup (IF x > buf_x \/ y > buf_y THEN {"underflow"} ELSE {})
        \cup (IF \E n \in {buf_x - x, buf_y - y, x, y} : n > 16843009
              THEN {"overflow"} ELSE {})

\* One iteration of the inner loop of draw: the four bytes written for (x, y).
draw_pixel(x, y, buf_x, buf_y) ==
    LET c == draw_channels(x, y, buf_x, buf_y)
    IN  <<U8(c.b), U8(c.g), U8(c.r), U8(c.a)>>

RECURSIVE draw_row(_, _, _, _, _)
draw_row(buf, x, y, buf_x, buf_y) ==
    IF x >= buf_x THEN buf
    ELSE draw_row(buf \o draw_pixel(x, y, buf_x, buf_y), x + 1, y, buf_x, buf_y)

RECURSIVE draw_rows(_, _, _, _)
draw_rows(buf, y, buf_x, buf_y) ==
    IF y >= buf_y THEN buf
    ELSE draw_rows(draw_row(buf, 0, y, buf_x, buf_y), y + 1, buf_x, buf_y)

\* draw: the content of the file once the BufWriter has been flushed.
draw(sz) == draw_rows(<<>>, 0, sz[1], sz[2])

\* --------------------------------------------------------------- requests

\* Indices of the requests of the log with the given op.
Indices(rq, op) == {i \in 1..Len(rq) : rq[i].op = op}

\* Id of the next object a request of kind op creates.
NextId(rq, op) == Cardinality(Indices(rq, op)) + 1

\* Names of the globals bound so far with the given interface.
BoundNames(rq, interface) ==
    {rq[i].name : i \in {j \in Indices(rq, "bind") : rq[j].interface = interface}}

Bind(name, interface, version) ==
    [op |-> "bind", name |-> name, interface |-> interface, version |-> version]

Attach(surface, buffer) ==
    [op |-> "attach", surface |-> surface, buffer |-> buffer, x |-> 0, y |-> 0]

Commit(surface) == [op |-> "commit", surface |-> surface]

\* `as i32` of a u32 value.
I32(n) == IF n <= 2147483647 THEN n ELSE (n - 2147483647) - 2147483647 - 2

\* `(p * 4) as i32` for a u32 p whose product with 4 does not overflow u32
\* (p < 2^30): the product keeps its 32 bits and the cast reads them as two's
\* complement, so a product of 2^31 or more comes out negative.
Times4AsI32(p) ==
    IF p < 536870912 THEN 4 * p ELSE (4 * (p - 536870912) - 2147483647) - 1

\* The arguments the wl_shm branch computes from SIZE: the size of
\* create_pool, and offset, width, height and stride of create_buffer.
shm_geometry(sz) ==
    [size |-> Times4AsI32(sz[1] * sz[2]), offset |-> 0,
     width |-> I32(sz[1]), height |-> I32(sz[2]), stride |-> Times4AsI32(sz[1])]

\* The number of write_all calls of draw, each of four bytes: one for each x
\* of 0..buf_x within each y of 0..buf_y.
draw_writes(sz) == sz[2] * sz[1]

\* ------------------------------------------------------------------ State

\* A handler's outcome: the State it leaves, the log with its requests
\* appended, the file draw wrote last, and whether it panicked (an unwrap of
\* None), which aborts the process inside the handler.
Outcome(st, rq, f) == [state |-> st, reqs |-> rq, file |-> f, panic |-> FALSE]
Panic(st, rq, f) == [state |-> st, reqs |-> rq, file |-> f, panic |-> TRUE]

\* State::init_xdg_surface
init_xdg_surface(st, rq, f) ==
    IF is_none(st.wm_base) \/ is_none(st.base_surface)
    THEN Panic(st, rq, f)
    ELSE LET wm_base == unwrap(st.wm_base)
             base_surface == unwrap(st.base_surface)
             xdg_surface == NextId(rq, "get_xdg_surface")
             toplevel == NextId(rq, "get_toplevel")
         IN  Outcome([st EXCEPT !.xdg_surface = Some(<<xdg_surface, toplevel>>)],
                     rq \o <<
                        [op |-> "get_xdg_surface", wm_base |-> wm_base,
                         surface |-> base_surface, id |-> xdg_surface],
                        [op |-> "get_toplevel", xdg_surface |-> xdg_surface,
                         id |-> toplevel],
                        [op |-> "set_title", toplevel |-> toplevel, title |-> NAME],
                        Commit(base_surface)>>,
                     f)

\* The wl_compositor branch wrapping without looking for the shell-base.
registry_wl_compositor_nocheck(st, rq, f, event) ==
    LET surface == NextId(rq, "create_surface")
        rq1 == rq \o <<Bind(event.name, event.interface, event.version),
                       [op |-> "create_surface", compositor |-> event.name,
                        id |-> surface]>>
        st1 == [st EXCEPT !.base_surface = Some(surface)]
    IN  IF is_none(st1.xdg_surface)
        THEN init_xdg_surface(st1, rq1, f)
        ELSE Outcome(st1, rq1, f)

\* Dispatch<WlRegistry, ()>::event, Event::Global with interface "wl_compositor"
registry_wl_compositor(st, rq, f, event) ==
    LET surface == NextId(rq, "create_surface")
        rq1 == rq \o <<Bind(event.name, event.interface, event.version),
                       [op |-> "create_surface", compositor |-> event.name,
                        id |-> surface]>>
        st1 == [st EXCEPT !.base_surface = Some(surface)]
    IN  IF is_some(st1.wm_base) /\ is_none(st1.xdg_surface)
        THEN init_xdg_surface(st1, rq1, f)
        ELSE Outcome(st1, rq1, f)

\* The wl_shm branch attaching without looking at configured.
registry_wl_shm_unguarded(st, rq, f, sz, event) ==
    LET file1 == draw(sz)
        pool == NextId(rq, "create_pool")
        buffer == NextId(rq, "create_buffer")
        rq1 == rq \o <<Bind(event.name, event.interface, event.version),
                       [op |-> "create_pool", shm |-> event.name, fd |-> file1,
                        size |-> shm_geometry(sz).size, id |-> pool],
                       [op |-> "create_buffer", pool |-> pool,
                        offset |-> shm_geometry(sz).offset,
                        width |-> shm_geometry(sz).width,
                        height |-> shm_geometry(sz).height,
                        stride |-> shm_geometry(sz).stride, format |-> "Argb8888",
                        id |-> buffer]>>
        st1 == [st EXCEPT !.buffer = Some(buffer)]
    IN  IF is_none(st1.base_surface)
        THEN Panic(st1, rq1, file1)
        ELSE LET surface == unwrap(st1.base_surface)
             IN  Outcome(st1,
                         rq1 \o <<Attach(surface, buffer), Commit(surface)>>,
                         file1)

\* The wl_shm branch storing the buffer and never attaching it.
registry_wl_shm_noattach(st, rq, f, sz, event) ==
    LET file1 == draw(sz)
        pool == NextId(rq, "create_pool")
        buffer == NextId(rq, "create_buffer")
        rq1 == rq \o <<Bind(event.name, event.interface, event.version),
                       [op |-> "create_pool", shm |-> event.name, fd |-> file1,
                        size |-> shm_geometry(sz).size, id |-> pool],
                       [op |-> "create_buffer", pool |-> pool,
                        offset |-> shm_geometry(sz).offset,
                        width |-> shm_geometry(sz).width,
                        height |-> shm_geometry(sz).height,
                        stride |-> shm_geometry(sz).stride, format |-> "Argb8888",
                        id |-> buffer]>>
        st1 == [st EXCEPT !.buffer = Some(buffer)]
    IN  Outcome(st1, rq1, file1)

\* The wl_shm branch creating the pool on the file before draw has written it.
registry_wl_shm_pool_first(st, rq, f, sz, event) ==
    LET file1 == draw(sz)
        pool == NextId(rq, "create_pool")
        buffer == NextId(rq, "create_buffer")
        rq1 == rq \o <<Bind(event.name, event.interface, event.version),
                       [op |-> "create_pool", shm |-> event.name, fd |-> <<>>,
                        size |-> shm_geometry(sz).size, id |-> pool],
                       [op |-> "create_buffer", pool |-> pool,
                        offset |-> shm_geometry(sz).offset,
                        width |-> shm_geometry(sz).width,
                        height |-> shm_geometry(sz).height,
                        stride |-> shm_geometry(sz).stride, format |-> "Argb8888",
                        id |-> buffer]>>
        st1 == [st EXCEPT !.buffer = Some(buffer)]
    IN  IF st1.configured
        THEN IF is_none(st1.base_surface)
             THEN Panic(st1, rq1, file1)
             ELSE LET surface == unwrap(st1.base_surface)
                  IN  Outcome(st1,
                              rq1 \o <<Attach(surface, buffer), Commit(surface)>>,
                              file1)
        ELSE Outcome(st1, rq1, file1)

\* Dispatch<WlRegistry, ()>::event, Event::Global with interface "wl_shm"
registry_wl_shm(st, rq, f, sz, event) ==
    LET file1 == draw(sz)
        pool == NextId(rq, "create_pool")
        buffer == NextId(rq, "create_buffer")
        rq1 == rq \o <<Bind(event.name, event.interface, event.version),
                       [op |-> "create_pool", shm |-> event.name, fd |-> file1,
                        size |-> shm_geometry(sz).size, id |-> pool],
                       [op |-> "create_buffer", pool |-> pool,
                        offset |-> shm_geometry(sz).offset,
                        width |-> shm_geometry(sz).width,
                        height |-> shm_geometry(sz).height,
                        stride |-> shm_geometry(sz).stride, format |-> "Argb8888",
                        id |-> buffer]>>
        st1 == [st EXCEPT !.buffer = Some(buffer)]
    IN  IF st1.configured
        THEN IF is_none(st1.base_surface)
             THEN Panic(st1, rq1, file1)
             ELSE LET surface == unwrap(st1.base_surface)
                  IN  Outcome(st1,
                              rq1 \o <<Attach(surface, buffer), Commit(surface)>>,
                              file1)
        ELSE Outcome(st1, rq1, file1)

\* The wl_seat branch binding version 1 whatever version is announced.
registry_wl_seat_version1(st, rq, f, event) ==
    Outcome(st, rq \o <<Bind(event.name, event.interface, 1)>>, f)

\* Dispatch<WlRegistry, ()>::event, Event::Global with interface "wl_seat"
registry_wl_seat(st, rq, f, event) ==
    Outcome(st, rq \o <<Bind(event.name, event.interface, event.version)>>, f)

\* The xdg_wm_base branch storing the handle without re-checking the join.
registry_xdg_wm_base_nojoin(st, rq, f, event) ==
    Outcome([st EXCEPT !.wm_base = Some(event.name)],
            rq \o <<Bind(event.name, event.interface, event.version)>>, f)

\* Dispatch<WlRegistry, ()>::event, Event::Global with interface "xdg_wm_base"
registry_xdg_wm_base(st, rq, f, event) ==
    LET rq1 == rq \o <<Bind(event.name, event.interface, event.version)>>
        st1 == [st EXCEPT !.wm_base = Some(event.name)]
    IN  IF is_some(st1.base_surface) /\ is_none(st1.xdg_surface)
        THEN init_xdg_surface(st1, rq1, f)
        ELSE Outcome(st1, rq1, f)

\* Dispatch<WlRegistry, ()>::event
registry_event(st, rq, f, sz, event) ==
    IF event.ev = "global"
    THEN CASE event.interface = "wl_compositor" -> registry_wl_compositor(st, rq, f, event)
           [] event.interface = "wl_shm" -> registry_wl_shm(st, rq, f, sz, event)
           [] event.interface = "wl_seat" -> registry_wl_seat(st, rq, f, event)
           [] event.interface = "xdg_wm_base" -> registry_xdg_wm_base(st, rq, f, event)
           [] OTHER -> Outcome(st, rq, f)
    ELSE Outcome(st, rq, f)     \* Event::GlobalRemove, and any other event

\* The configure handler acknowledging the first configure only.
xdg_surface_event_ackonce(st, rq, f, event) ==
    IF event.ev = "configure" /\ ~st.configured
    THEN LET rq1 == rq \o <<[op |-> "ack_configure", xdg_surface |-> event.proxy,
                              serial |-> event.serial]>>
             st1 == [st EXCEPT !.configured = TRUE]
         IN  IF is_none(st1.base_surface)
             THEN Panic(st1, rq1, f)
             ELSE LET surface == unwrap(st1.base_surface)
                  IN  IF is_some(st1.buffer)
                      THEN Outcome(st1,
                                   rq1 \o <<Attach(surface, unwrap(st1.buffer)),
                                            Commit(surface)>>,
                                   f)
                      ELSE Outcome(st1, rq1, f)
    ELSE Outcome(st, rq, f)

\* The configure handler presenting the buffer before it acknowledges.
xdg_surface_event_attach_first(st, rq, f, event) ==
    IF event.ev = "configure"
    THEN LET ack == [op |-> "ack_configure", xdg_surface |-> event.proxy,
                     serial |-> event.serial]
             st1 == [st EXCEPT !.configured = TRUE]
         IN  IF is_none(st1.base_surface)
             THEN Panic(st1, rq, f)
             ELSE LET surface == unwrap(st1.base_surface)
                  IN  IF is_some(st1.buffer)
                      THEN Outcome(st1,
                                   rq \o <<Attach(surface, unwrap(st1.buffer)),
                                           Commit(surface), ack>>,
                                   f)
                      ELSE Outcome(st1, rq \o <<ack>>, f)
    ELSE Outcome(st, rq, f)

\* Dispatch<XdgSurface, ()>::event
xdg_surface_event(st, rq, f, event) ==
    IF event.ev = "configure"
    THEN LET rq1 == rq \o <<[op |-> "ack_configure", xdg_surface |-> event.proxy,
                              serial |-> event.serial]>>
             st1 == [st EXCEPT !.configured = TRUE]
         IN  IF is_none(st1.base_surface)
             THEN Panic(st1, rq1, f)
             ELSE LET surface == unwrap(st1.base_surface)
                  IN  IF is_some(st1.buffer)
                      THEN Outcome(st1,
                                   rq1 \o <<Attach(surface, unwrap(st1.buffer)),
                                            Commit(surface)>>,
                                   f)
                      ELSE Outcome(st1, rq1, f)
    ELSE Outcome(st, rq, f)

\* The close handler ending the session only once the surface is configured.
xdg_toplevel_event_ifconfigured(st, rq, f, event) ==
    IF event.ev = "close" /\ st.configured
    THEN Outcome([st EXCEPT !.running = FALSE], rq, f)
    ELSE Outcome(st, rq, f)

\* Dispatch<XdgToplevel, ()>::event
xdg_toplevel_event(st, rq, f, event) ==
    IF event.ev = "close"
    THEN Outcome([st EXCEPT !.running = FALSE], rq, f)
    ELSE Outcome(st, rq, f)

\* The ping handler answering with a serial of its own.
xdg_wm_base_event_serial0(st, rq, f, event) ==
    IF event.ev = "ping"
    THEN Outcome(st, rq \o <<[op |-> "pong", wm_base |-> event.proxy,
                              serial |-> 0]>>, f)
    ELSE Outcome(st, rq, f)

\* Dispatch<XdgWmBase, ()>::event
xdg_wm_base_event(st, rq, f, event) ==
    IF event.ev = "ping"
    THEN Outcome(st, rq \o <<[op |-> "pong", wm_base |-> event.proxy,
                              serial |-> event.serial]>>, f)
    ELSE Outcome(st, rq, f)

\* The seat handler requesting a keyboard whatever the capabilities are.
wl_seat_event_always(st, rq, f, event) ==
    IF event.ev = "capabilities" /\ event.known
    THEN Outcome(st, rq \o <<[op |-> "get_keyboard", seat |-> event.proxy,
                              id |-> NextId(rq, "get_keyboard")]>>, f)
    ELSE Outcome(st, rq, f)

\* Dispatch<WlSeat, ()>::event
wl_seat_event(st, rq, f, event) ==
    IF event.ev = "capabilities" /\ event.known    \* WEnum::Value(capabilities)
    THEN IF "keyboard" \in event.capabilities
         THEN Outcome(st, rq \o <<[op |-> "get_keyboard", seat |-> event.proxy,
                                   id |-> NextId(rq, "get_keyboard")]>>, f)
         ELSE Outcome(st, rq, f)
    ELSE Outcome(st, rq, f)

\* The key handler toggling running on the exit key.
wl_keyboard_event_toggle(st, rq, f, event) ==
    IF event.ev = "key"
    THEN IF event.key = 1
         THEN Outcome([st EXCEPT !.running = ~st.running], rq, f)
         ELSE Outcome(st, rq, f)
    ELSE Outcome(st, rq, f)

\* The key handler ending the session on a press of any key.
wl_keyboard_event_anykey(st, rq, f, event) ==
    IF event.ev = "key"
    THEN IF event.key = 1 \/ event.state = "pressed"
         THEN Outcome([st EXCEPT !.running = FALSE], rq, f)
         ELSE Outcome(st, rq, f)
    ELSE Outcome(st, rq, f)

\* Dispatch<wl_keyboard::WlKeyboard, ()>::event
wl_keyboard_event(st, rq, f, event) ==
    IF event.ev = "key"
    THEN IF event.key = 1
         THEN Outcome([st EXCEPT !.running = FALSE], rq, f)
         ELSE Outcome(st, rq, f)
    ELSE Outcome(st, rq, f)

\* ------------------------------------------------------------- compositor

\* Ids of the objects of kind op the client has created.
Created(rq, op) == {rq[i].id : i \in Indices(rq, op)}

\* The events the compositor may send as its id-th event to a client whose
\* requests so far are rq: globals at any time, the events of an object only
\* once the client has created it.  id serves as global name and as serial.
EventsAt(rq, id) ==
    {[ev |-> "global", name |-> id, interface |-> i, version |-> VersionOf(i)] :
        i \in Interfaces}
    \cup {[ev |-> "global_remove", name |-> n] :
            n \in UNION {BoundNames(rq, i) : i \in Recognized}}
    \cup {[ev |-> "configure", proxy |-> x, serial |-> id] :
            x \in Created(rq, "get_xdg_surface")}
    \cup {[ev |-> "close", proxy |-> t] : t \in Created(rq, "get_toplevel")}
    \cup {[ev |-> "ping", proxy |-> w, serial |-> id] :
            w \in BoundNames(rq, "xdg_wm_base")}
    \cup {[ev |-> "capabilities", proxy |-> s, known |-> TRUE, capabilities |-> c] :
            s \in BoundNames(rq, "wl_seat"), c \in CapabilitySets}
    \cup {[ev |-> "capabilities", proxy |-> s, known |-> FALSE, capabilities |-> {}] :
            s \in BoundNames(rq, "wl_seat")}
    \cup {[ev |-> "key", proxy |-> k, key |-> c, state |-> p] :
            k \in Created(rq, "get_keyboard"), c \in Keys, p \in KeyStates}

\* The batches of n events the compositor may have queued, the first of them
\* being its id-th event.
RECURSIVE Batches(_, _, _)
Batches(rq, id, n) ==
    IF n = 0 THEN {<<>>}
    ELSE {<<e>> \o t : e \in EventsAt(rq, id), t \in Batches(rq, id + 1, n - 1)}

\* ------------------------------------------------------------------- Init

\* WaylandClient::new leaving running false.
NewState_stopped ==
    [running |-> FALSE, base_surface |-> None, buffer |-> None, wm_base |-> None,
     xdg_surface |-> None, configured |-> FALSE]

\* WaylandClient::new
NewState ==
    [running |-> TRUE, base_surface |-> None, buffer |-> None, wm_base |-> None,
     xdg_surface |-> None, configured |-> FALSE]

Init ==
    /\ state = NewState
    /\ reqs = <<[op |-> "get_registry"]>>
    /\ queue = <<>>
    /\ pc = "run"
    /\ sent = 0
    /\ broken = FALSE
    /\ size = SIZE
    /\ file = <<>>
    /\ geometry = None

\* ---------------------------------------------------------------- actions

\* The loop dispatching without looking at running.
RunDispatch_unconditional ==
    /\ pc = "run" /\ queue = <<>> /\ ~broken
    /\ \E n \in 1..Min(MaxBatch, MaxEvents - sent) :
         \E batch \in Batches(reqs, sent + 1, n) :
            /\ queue' = batch
            /\ sent' = sent + n
    /\ UNCHANGED <<state, reqs, pc, broken, size, file, geometry>>

\* WaylandClient::run, an iteration whose blocking_dispatch reads a batch.
RunDispatch ==
    /\ pc = "run" /\ queue = <<>> /\ state.running /\ ~broken
    /\ \E n \in 1..Min(MaxBatch, MaxEvents - sent) :
         \E batch \in Batches(reqs, sent + 1, n) :
            /\ queue' = batch
            /\ sent' = sent + n
    /\ UNCHANGED <<state, reqs, pc, broken, size, file, geometry>>

\* WaylandClient::run, an iteration whose blocking_dispatch returns Err: the
\* result is dropped by `let _ =` and the loop goes on.
RunDispatchErr ==
    /\ pc = "run" /\ queue = <<>> /\ state.running
    /\ broken' = TRUE
    /\ UNCHANGED <<state, reqs, queue, pc, sent, size, file, geometry>>

\* The loop returning as soon as running is false, in the middle of a batch.
RunExit_midbatch ==
    /\ pc = "run" /\ ~state.running
    /\ pc' = "end"
    /\ UNCHANGED <<state, reqs, queue, sent, broken, size, file, geometry>>

\* WaylandClient::run, the loop condition is false: run returns.
RunExit ==
    /\ pc = "run" /\ queue = <<>> /\ ~state.running
    /\ pc' = "end"
    /\ UNCHANGED <<state, reqs, queue, sent, broken, size, file, geometry>>

\* The effect of a handler on the session: its outcome, the event consumed.
Handled(r) ==
    /\ state' = r.state
    /\ reqs' = r.reqs
    /\ file' = r.file
    /\ queue' = Tail(queue)
    /\ pc' = IF r.panic THEN "panic" ELSE pc
    /\ UNCHANGED <<sent, broken, size, geometry>>

Dispatching(kinds) == pc = "run" /\ queue # <<>> /\ Head(queue).ev \in kinds

DispatchRegistry ==
    /\ Dispatching({"global", "global_remove"})
    /\ Handled(registry_event(state, reqs, file, size, Head(queue)))

DispatchXdgSurface ==
    /\ Dispatching({"configure"})
    /\ Handled(xdg_surface_event(state, reqs, file, Head(queue)))

DispatchXdgToplevel ==
    /\ Dispatching({"close"})
    /\ Handled(xdg_toplevel_event(state, reqs, file, Head(queue)))

DispatchXdgWmBase ==
    /\ Dispatching({"ping"})
    /\ Handled(xdg_wm_base_event(state, reqs, file, Head(queue)))

DispatchWlSeat ==
    /\ Dispatching({"capabilities"})
    /\ Handled(wl_seat_event(state, reqs, file, Head(queue)))

DispatchWlKeyboard ==
    /\ Dispatching({"key"})
    /\ Handled(wl_keyboard_event(state, reqs, file, Head(queue)))

Next ==
    \/ RunDispatch
    \/ RunDispatchErr
    \/ RunExit
    \/ DispatchRegistry
    \/ DispatchXdgSurface
    \/ DispatchXdgToplevel
    \/ DispatchXdgWmBase
    \/ DispatchWlSeat
    \/ DispatchWlKeyboard

Spec == Init /\ [][Next]_vars

\* The session with the delivery of a batch running to its end: once
\* blocking_dispatch has read a batch, it hands every event of it to its
\* handler.  Nothing is assumed of what the compositor sends, nor of when.
Delivery ==
    \/ DispatchRegistry
    \/ DispatchXdgSurface
    \/ DispatchXdgToplevel
    \/ DispatchXdgWmBase
    \/ DispatchWlSeat
    \/ DispatchWlKeyboard

SpecLive == Spec /\ WF_vars(Delivery)

\* ------------------------------------------------------------- draw alone

\* draw called with any size of the bounded range, on an empty file.
InitDraw ==
    /\ state = NewState
    /\ reqs = <<[op |-> "get_registry"]>>
    /\ queue = <<>>
    /\ pc = "draw"
    /\ sent = 0
    /\ broken = FALSE
    /\ size \in (0..MaxDim) \X (0..MaxDim)
    /\ file = <<>>
    /\ geometry = None

DrawCall ==
    /\ pc = "draw"
    /\ file' = draw(size)
    /\ pc' = "drawn"
    /\ UNCHANGED <<state, reqs, queue, sent, broken, size, geometry>>

NextDraw == DrawCall

SpecDraw == InitDraw /\ [][NextDraw]_vars

\* --------------------------------------------------- buffer geometry alone

\* Widths and heights around the point where width * height * 4 passes
\* i32::MAX.
BigDims == {16384, 23170, 23171, 32767, 32768}

\* The sizes the geometry is computed for: the small ones draw is run on, and
\* large ones whose product width * height * 4 still fits u32.
GeometrySizes ==
    ((0..MaxDim) \X (0..MaxDim))
        \cup {sz \in BigDims \X BigDims : sz[1] * sz[2] < 1073741824}

InitGeometry ==
    /\ state = NewState
    /\ reqs = <<[op |-> "get_registry"]>>
    /\ queue = <<>>
    /\ pc = "measure"
    /\ sent = 0
    /\ broken = FALSE
    /\ size \in GeometrySizes
    /\ file = <<>>
    /\ geometry = None

\* The expressions of the wl_shm branch and the loop bounds of draw, evaluated
\* for size.
GeometryCall ==
    /\ pc = "measure"
    /\ geometry' = Some([args |-> shm_geometry(size), writes |-> draw_writes(size)])
    /\ pc' = "measured"
    /\ UNCHANGED <<state, reqs, queue, sent, broken, size, file>>

NextGeometry == GeometryCall

SpecGeometry == InitGeometry /\ [][NextGeometry]_vars

\* ================================================================= claims

\* The requests a step appends to the log.
NewReqs == SubSeq(reqs', Len(reqs) + 1, Len(reqs'))

\* The event a step handles, if it handles one.
Handling(kind) == pc = "run" /\ queue # <<>> /\ Head(queue).ev = kind

\* The commit at index i of the log is the one init_xdg_surface issues.
IsInitiatingCommit(rq, i) == i > 1 /\ rq[i].op = "commit" /\ rq[i - 1].op = "set_title"

\* The surface the shell-surface x was requested for.
WrappedSurfaces(rq, x) ==
    {rq[k].surface : k \in {j \in Indices(rq, "get_xdg_surface") : rq[j].id = x}}

\* Number of bind requests of the log for the interface.
BindCount(rq, interface) ==
    Cardinality({i \in Indices(rq, "bind") : rq[i].interface = interface})

\* C1 (Invariant I1): every commit of the log other than the initiating commit
\* of init_xdg_surface comes after an ack_configure of a shell-surface of the
\* surface it is issued on.
C1_CommitAfterAck ==
    \A i \in Indices(reqs, "commit") :
        \/ IsInitiatingCommit(reqs, i)
        \/ \E j \in Indices(reqs, "ack_configure") :
              /\ j < i
              /\ reqs[i].surface \in WrappedSurfaces(reqs, reqs[j].xdg_surface)

\* C2 (Invariant I2): every step that issues an attach, or a commit other than
\* the initiating one, leaves configured true and holds the attached buffer in
\* State.buffer; a wl_shm global handled while configured is false issues no
\* attach and no commit.
C2_AttachOnlyConfiguredWithBuffer ==
    [][ /\ \A i \in 1..Len(NewReqs) :
             /\ (NewReqs[i].op = "attach" =>
                   (/\ state'.configured
                    /\ state'.buffer = Some(NewReqs[i].buffer)))
             /\ ((NewReqs[i].op = "commit"
                   /\ ~IsInitiatingCommit(reqs', Len(reqs) + i)) =>
                   (/\ state'.configured
                    /\ is_some(state'.buffer)
                    /\ i > 1 /\ NewReqs[i - 1].op = "attach"))
        /\ ((Handling("global") /\ Head(queue).interface = "wl_shm"
              /\ ~state.configured) =>
               \A k \in 1..Len(NewReqs) : NewReqs[k].op \notin {"attach", "commit"})
      ]_vars

C2_Witness ==
    /\ Indices(reqs, "attach") # {}
    /\ \E i \in Indices(reqs, "create_buffer") :
         \E j \in Indices(reqs, "ack_configure") : i < j

\* C3 (join-order independence): init_xdg_surface has run at most once; it has
\* run exactly once as soon as wl_compositor and xdg_wm_base have both been
\* bound, in whichever order; and it ran on a surface created and a shell-base
\* bound before it, without panicking on an absent handle.
C3_WrapExactlyOnce ==
    /\ pc # "panic"
    /\ Cardinality(Indices(reqs, "get_xdg_surface")) <= 1
    /\ ((BindCount(reqs, "wl_compositor") > 0 /\ BindCount(reqs, "xdg_wm_base") > 0)
          => Cardinality(Indices(reqs, "get_xdg_surface")) = 1)
    /\ \A k \in Indices(reqs, "get_xdg_surface") :
          /\ \E i \in Indices(reqs, "create_surface") :
                i < k /\ reqs[i].id = reqs[k].surface
          /\ \E i \in Indices(reqs, "bind") :
                /\ i < k
                /\ reqs[i].interface = "xdg_wm_base"
                /\ reqs[i].name = reqs[k].wm_base

C3_Witness ==
    /\ Cardinality(Indices(reqs, "get_xdg_surface")) = 1
    /\ \E i, j \in Indices(reqs, "bind") :
          /\ reqs[i].interface = "wl_compositor"
          /\ reqs[j].interface = "xdg_wm_base"
          /\ i < j

\* C4 (buffer-ready-after-configure): a wl_shm global handled while configured
\* is true and no buffer exists issues, after the bind and the creation of the
\* pool and the buffer, exactly one attach of the new buffer followed by
\* exactly one commit, on the base surface, in that same handler.
C4_BufferReadyAfterConfigure ==
    [][(/\ Handling("global") /\ Head(queue).interface = "wl_shm"
        /\ state.configured /\ is_none(state.buffer)) =>
          /\ Len(NewReqs) = 5
          /\ NewReqs[1].op = "bind"
          /\ NewReqs[2].op = "create_pool"
          /\ NewReqs[3].op = "create_buffer"
          /\ NewReqs[4] = Attach(unwrap(state.base_surface), NewReqs[3].id)
          /\ NewReqs[5] = Commit(unwrap(state.base_surface))
          /\ state'.buffer = Some(NewReqs[3].id)
      ]_vars

C4_Witness ==
    \E i \in Indices(reqs, "create_buffer") :
        /\ \E j \in Indices(reqs, "ack_configure") : j < i
        /\ \A j \in Indices(reqs, "create_buffer") : i <= j
        /\ i + 2 <= Len(reqs)
        /\ reqs[i + 1].op = "attach" /\ reqs[i + 1].buffer = reqs[i].id
        /\ reqs[i + 2].op = "commit"

\* C5 (configure idempotence): a step handling a configure event issues one
\* ack_configure with the event's serial, followed by one attach and one commit
\* of the stored buffer if there is one and by nothing otherwise; it changes
\* no field but configured, so a repeated configure leaves State as it was.
C5_ConfigureIdempotent ==
    [][Handling("configure") =>
          /\ NewReqs =
                <<[op |-> "ack_configure", xdg_surface |-> Head(queue).proxy,
                   serial |-> Head(queue).serial]>>
                \o (IF is_some(state.buffer)
                    THEN <<Attach(unwrap(state.base_surface), unwrap(state.buffer)),
                           Commit(unwrap(state.base_surface))>>
                    ELSE <<>>)
          /\ state' = [state EXCEPT !.configured = TRUE]
          /\ (state.configured => state' = state)
      ]_vars

C5_Witness ==
    /\ Cardinality(Indices(reqs, "ack_configure")) >= 2
    /\ Cardinality(Indices(reqs, "attach")) >= 2

\* C6 (termination monotonicity, as stated): no step taken while running is
\* false issues an attach, a commit or a bind.
C6_NoRequestOnceStopped ==
    [][~state.running =>
          \A i \in 1..Len(NewReqs) : NewReqs[i].op \notin {"attach", "commit", "bind"}
      ]_vars

\* C6 (amended): once running is false and the batch in which it became false
\* has been dispatched, no request is issued and no further batch is read.
C6_NoRequestAfterStoppedBatch ==
    [][(~state.running /\ queue = <<>>) => (reqs' = reqs /\ queue' = <<>>)]_vars

C6_Witness ==
    /\ pc = "end"
    /\ ~state.running
    /\ sent < MaxEvents
    /\ Indices(reqs, "commit") # {}

\* C7 (the flag is checked between batches): while a batch is being delivered
\* the loop does not return; each step handles the oldest event of the batch,
\* a configure being acknowledged with its serial and a close clearing running,
\* whatever running is by then; and run returns only with the batch exhausted
\* and running false.
C7_FlagCheckedBetweenBatches ==
    [][ /\ (queue # <<>> =>
             (/\ pc' = pc
              /\ queue' = Tail(queue)
              /\ (Head(queue).ev = "configure" =>
                    (/\ Len(NewReqs) >= 1
                     /\ NewReqs[1].op = "ack_configure"
                     /\ NewReqs[1].serial = Head(queue).serial))
              /\ (Head(queue).ev = "close" => ~state'.running)))
        /\ ((pc = "run" /\ pc' = "end") => (queue = <<>> /\ ~state.running))
      ]_vars

C7_Witness == ~state.running /\ Handling("configure")

\* C8 (Invariant I3): each recognized interface is bound at most once.
C8_BoundAtMostOnce == \A i \in Recognized : BindCount(reqs, i) <= 1

\* C9 (exit-key exactness): a step handling a key event with code 1 leaves
\* running false, whatever the key's state; one handling any other code leaves
\* State as it was and issues no request.
C9_ExitKeyExact ==
    [][Handling("key") =>
          /\ (Head(queue).key = 1 => ~state'.running)
          /\ (Head(queue).key # 1 => (state' = state /\ reqs' = reqs))
      ]_vars

C9_Witness ==
    /\ ~state.running
    /\ Created(reqs, "get_keyboard") # {}
    /\ Created(reqs, "get_toplevel") = {}

\* The bytes draw is to write for pixel (x, y) of a w by h image, in file order.
GradientBGRA(x, y, w, h) ==
    LET r == Min(((w - x) * 255) \div w, ((h - y) * 255) \div h)
        g == Min((x * 255) \div w, ((h - y) * 255) \div h)
        b == Min(((w - x) * 255) \div w, (y * 255) \div h)
    IN  <<b, g, r, 255>>

\* The four bytes of file f for pixel (x, y) of an image w pixels wide.
PixelAt(f, x, y, w) == SubSeq(f, (y * w + x) * 4 + 1, (y * w + x) * 4 + 4)

\* C10 (pixel layout): draw with width 4 and height 4 writes 64 bytes, the
\* pixels in row-major order, each as B, G, R, A of the gradient; the corners
\* are (0,0,255,255), (0,191,63,255), (191,0,63,255) and (63,63,63,255).
C10_PixelLayout ==
    (pc = "drawn" /\ size = <<4, 4>>) =>
        /\ Len(file) = 64
        /\ \A x \in 0..3, y \in 0..3 : PixelAt(file, x, y, 4) = GradientBGRA(x, y, 4, 4)
        /\ PixelAt(file, 0, 0, 4) = <<0, 0, 255, 255>>
        /\ PixelAt(file, 3, 0, 4) = <<0, 191, 63, 255>>
        /\ PixelAt(file, 0, 3, 4) = <<191, 0, 63, 255>>
        /\ PixelAt(file, 3, 3, 4) = <<63, 63, 63, 255>>

C10_Witness == pc = "drawn" /\ size = <<4, 4>> /\ Len(file) = 64

\* C11 (close): a step handling a toplevel close leaves running false, in
\* whatever state it is handled, changes no other field of State and issues
\* no request.
C11_CloseStopsOnly ==
    [][Handling("close") =>
          /\ state' = [state EXCEPT !.running = FALSE]
          /\ reqs' = reqs
      ]_vars

C11_Witness ==
    /\ ~state.running
    /\ ~state.configured
    /\ Created(reqs, "get_toplevel") # {}
    /\ Created(reqs, "get_keyboard") = {}

\* C12 (registry resolver): a step handling a global announcement of a
\* recognized interface issues exactly one bind, as its first request, with the
\* announced name, interface and version; a step handling an announcement of
\* any other interface, or a global removal, issues no request and leaves
\* State as it was.
C12_BindIffRecognized ==
    [][ /\ ((Handling("global") /\ Head(queue).interface \in Recognized) =>
             (/\ Len(NewReqs) >= 1
              /\ NewReqs[1] = Bind(Head(queue).name, Head(queue).interface,
                                   Head(queue).version)
              /\ \A i \in 2..Len(NewReqs) : NewReqs[i].op # "bind"))
        /\ (((Handling("global") /\ Head(queue).interface \notin Recognized)
              \/ Handling("global_remove")) =>
             (reqs' = reqs /\ state' = state))
      ]_vars

C12_Witness ==
    /\ queue = <<>>
    /\ sent = 2
    /\ Len(reqs) = 3
    /\ BindCount(reqs, "wl_compositor") = 1

\* C13 (ping): a step handling a ping issues exactly one request, a pong on the
\* same shell-base object with the same serial, and leaves State as it was.
C13_PingPong ==
    [][Handling("ping") =>
          /\ NewReqs = <<[op |-> "pong", wm_base |-> Head(queue).proxy,
                          serial |-> Head(queue).serial]>>
          /\ state' = state
      ]_vars

C13_Witness == Indices(reqs, "pong") # {}

\* C14 (initial state, as stated): before any event has been sent, running and
\* configured are false and the four handles are absent.
C14_InitialAllFalse ==
    sent = 0 =>
        state = [running |-> FALSE, base_surface |-> None, buffer |-> None,
                 wm_base |-> None, xdg_surface |-> None, configured |-> FALSE]

\* C14 (amended): before any event has been sent, running is true, configured
\* is false and the four handles are absent.
C14_InitialState ==
    sent = 0 =>
        /\ state.running
        /\ ~state.configured
        /\ is_none(state.base_surface)
        /\ is_none(state.buffer)
        /\ is_none(state.wm_base)
        /\ is_none(state.xdg_surface)

C14_Witness == sent = 0 /\ pc = "run" /\ ~broken /\ state.running

\* C15 (written once, before it is exposed): the file a create_pool request
\* hands to the compositor holds, when the request is issued, the whole image
\* draw writes for the session's size, and the create_buffer of that pool
\* follows it; the only steps that write a file are those handling a wl_shm
\* global, and the file they write is the one of the pool they create, so no
\* file is written once its pool exists.
C15_WrittenBeforeExposed ==
    [][ /\ \A i \in Indices(reqs', "create_pool") :
             /\ Len(reqs'[i].fd) = size[1] * size[2] * 4
             /\ \A x \in 0..(size[1] - 1), y \in 0..(size[2] - 1) :
                   PixelAt(reqs'[i].fd, x, y, size[1])
                       = GradientBGRA(x, y, size[1], size[2])
             /\ i < Len(reqs')
             /\ reqs'[i + 1].op = "create_buffer"
             /\ reqs'[i + 1].pool = reqs'[i].id
        /\ \A i \in Indices(reqs, "create_pool") : reqs'[i] = reqs[i]
        /\ file' # file =>
             (/\ Handling("global") /\ Head(queue).interface = "wl_shm"
              /\ \E i \in 1..Len(NewReqs) :
                    NewReqs[i].op = "create_pool" /\ NewReqs[i].fd = file')
      ]_vars

C15_Witness == Cardinality(Indices(reqs, "create_pool")) >= 2

\* C17 (fatal errors end the session): once a blocking_dispatch of the loop has
\* failed, the loop attempts no further dispatch.
C17_ErrorEndsLoop == broken => ~ENABLED (RunDispatch \/ RunDispatchErr)

C19_AckThenAttachThenCommit ==
    [][Handling("configure") =>
          /\ Len(NewReqs) >= 1
          /\ NewReqs[1].op = "ack_configure"
          /\ NewReqs[1].serial = Head(queue).serial
          /\ state'.configured
          /\ \A i, j \in 1..Len(NewReqs) :
                (NewReqs[i].op = "attach" /\ NewReqs[j].op = "commit") => (1 < i /\ i < j)
          /\ is_some(state.buffer) =>
                (/\ Len(NewReqs) = 3
                 /\ NewReqs[2].op = "attach"
                 /\ NewReqs[2].buffer = unwrap(state.buffer)
                 /\ NewReqs[2].x = 0 /\ NewReqs[2].y = 0
                 /\ NewReqs[3].op = "commit"
                 /\ NewReqs[3].surface = NewReqs[2].surface)
          /\ is_none(state.buffer) => Len(NewReqs) = 1
      ]_vars

C19_Witness ==
    \E i, j \in Indices(reqs, "ack_configure") :
        /\ i < j /\ j < Len(reqs)
        /\ reqs[i + 1].op # "attach"
        /\ reqs[j + 1].op = "attach"

\* C20 (the wrap and its initiating commit): every get_xdg_surface of the log is
\* followed at once by the get_toplevel of that shell-surface, the set_title of
\* that toplevel and the commit of the wrapped surface, and no attach on that
\* surface comes before this commit, whether wl_shm was bound before the wrap
\* or after it.
C20_WrapOrderNoAttachBefore ==
    \A k \in Indices(reqs, "get_xdg_surface") :
        /\ k + 3 <= Len(reqs)
        /\ reqs[k + 1].op = "get_toplevel"
        /\ reqs[k + 1].xdg_surface = reqs[k].id
        /\ reqs[k + 2].op = "set_title"
        /\ reqs[k + 2].toplevel = reqs[k + 1].id
        /\ reqs[k + 2].title = NAME
        /\ reqs[k + 3] = Commit(reqs[k].surface)
        /\ \A j \in Indices(reqs, "attach") :
              reqs[j].surface = reqs[k].surface => j > k + 3

C20_Witness ==
    \E k \in Indices(reqs, "get_xdg_surface") :
        /\ \E i \in Indices(reqs, "create_buffer") : i < k
        /\ \E j \in Indices(reqs, "attach") : reqs[j].surface = reqs[k].surface


\* C16: buffer geometry.  For every width and height, the number of bytes draw
\* writes is width * height * 4 and equals the size passed to create_pool (as
\* the i32 the request carries), the buffer is created at offset 0 with that
\* width and height and stride width * 4, and offset + stride * height does
\* not exceed the pool size.  The bytes written are counted in write_all
\* calls of four bytes each; for the sizes draw is run on, the count is that
\* of the file itself.
C16_BufferGeometry ==
    pc = "measured" =>
        LET g == unwrap(geometry).args
            n == unwrap(geometry).writes
        IN  /\ n = size[1] * size[2]
            /\ (size[1] <= MaxDim /\ size[2] <= MaxDim) => (Len(draw(size)) = 4 * n)
            /\ g.size >= 0
            /\ g.size % 4 = 0
            /\ g.size \div 4 = n
            /\ g.offset = 0
            /\ g.width = size[1]
            /\ g.height = size[2]
            /\ g.stride = size[1] * 4
            /\ g.offset + g.stride * g.height <= g.size


\* C21 (the wrap fires exactly when the join becomes true): after every step,
\* a base surface and a shell-base handle both present mean the
\* (shell-surface, toplevel) pair is present; the pair appears only in the
\* step handling the wl_compositor or xdg_wm_base global that makes the second
\* of the two handles present, and that step issues the get_xdg_surface.
C21_WrapAtJoin ==
    [][ /\ ((is_some(state'.base_surface) /\ is_some(state'.wm_base))
              => is_some(state'.xdg_surface))
        /\ ((is_none(state.xdg_surface) /\ is_some(state'.xdg_surface)) =>
              (/\ Handling("global")
               /\ Head(queue).interface \in {"wl_compositor", "xdg_wm_base"}
               /\ (is_none(state.base_surface) \/ is_none(state.wm_base))
               /\ is_some(state'.base_surface)
               /\ is_some(state'.wm_base)
               /\ \E i \in 1..Len(NewReqs) :
                     /\ NewReqs[i].op = "get_xdg_surface"
                     /\ NewReqs[i].surface = unwrap(state'.base_surface)
                     /\ NewReqs[i].wm_base = unwrap(state'.wm_base)
                     /\ unwrap(state'.xdg_surface)[1] = NewReqs[i].id))
      ]_vars

\* The shell-base was bound first and the wrap came with the wl_compositor.
C21_Witness ==
    /\ is_some(state.xdg_surface)
    /\ \E i, j \in Indices(reqs, "bind") :
          /\ reqs[i].interface = "xdg_wm_base"
          /\ reqs[j].interface = "wl_compositor"
          /\ i < j
          /\ \A k \in Indices(reqs, "get_xdg_surface") : k > j


\* The compositor has announced the interface: the global is bound already, or
\* its announcement is in the batch being delivered.
Announced(interface) ==
    \/ BindCount(reqs, interface) > 0
    \/ \E k \in 1..Len(queue) :
          queue[k].ev = "global" /\ queue[k].interface = interface

\* The compositor has sent a configure (it sends one only for a shell-surface
\* the client has created, so after the initiating commit).
ConfigureSent ==
    \/ Indices(reqs, "ack_configure") # {}
    \/ \E k \in 1..Len(queue) : queue[k].ev = "configure"

\* An attach of a created buffer, followed at once by the commit of its surface.
Presented ==
    \E i \in Indices(reqs, "attach") :
        /\ reqs[i].buffer \in Created(reqs, "create_buffer")
        /\ i < Len(reqs)
        /\ reqs[i + 1] = Commit(reqs[i].surface)

\* C22 (presentation liveness): once the compositor has announced
\* wl_compositor, xdg_wm_base and wl_shm, in whichever order, and has sent a
\* configure, an attach and commit of the buffer is eventually issued, unless
\* running has become false; the buffer may be created before the configure
\* is handled or after it.
C22_EventuallyPresented ==
    (/\ Announced("wl_compositor")
     /\ Announced("xdg_wm_base")
     /\ Announced("wl_shm")
     /\ ConfigureSent) ~> (Presented \/ ~state.running)

\* The buffer was created after the configure was handled, and presented.
C22_Witness ==
    /\ Presented
    /\ state.running
    /\ BindCount(reqs, "wl_compositor") = 1
    /\ BindCount(reqs, "xdg_wm_base") = 1
    /\ \E i \in Indices(reqs, "ack_configure") :
          \A j \in Indices(reqs, "create_buffer") : i < j


\* C23 (the loop returns only once running is false, at the first batch
\* boundary after that): run returns only from a batch boundary at which
\* running is false; a batch is read only while running is true; and from a
\* batch boundary at which running is false the only step is the return.
C23_ReturnsAtFirstBoundary ==
    [][ /\ ((pc = "run" /\ pc' = "end") => (~state.running /\ queue = <<>>))
        /\ ((queue = <<>> /\ queue' # <<>>) => state.running)
        /\ ((pc = "run" /\ queue = <<>> /\ ~state.running) =>
              (pc' = "end" /\ queue' = <<>> /\ state' = state /\ reqs' = reqs))
      ]_vars

\* The toplevel was closed after the surface was configured, and run returned.
C23_Witness ==
    /\ pc = "end"
    /\ state.configured
    /\ Created(reqs, "get_keyboard") = {}


\* C24 (no handler fails on a missing handle): no handler has panicked on an
\* unwrap of an absent handle; configured true means the (shell-surface,
\* toplevel) pair is present, and the pair present means the base surface and
\* the shell-base handle are; a configure event about to be handled finds the
\* base surface present.
C24_NoMissingHandle ==
    /\ pc # "panic"
    /\ state.configured => is_some(state.xdg_surface)
    /\ is_some(state.xdg_surface) =>
          (is_some(state.base_surface) /\ is_some(state.wm_base))
    /\ Handling("configure") => is_some(state.base_surface)
    /\ (Handling("global") /\ Head(queue).interface = "wl_shm" /\ state.configured)
          => is_some(state.base_surface)

\* A second configure is about to be handled, the buffer having been attached.
C24_Witness ==
    /\ Handling("configure")
    /\ state.configured
    /\ Indices(reqs, "attach") # {}


\* C25 (one surface throughout): every attach of the log, and every commit
\* other than the initiating one, is issued on a surface that
\* init_xdg_surface has given the shell role before, over every sequence of
\* events, a second wl_compositor announcement after the wrap included.
C25_AttachOnWrappedSurface ==
    \A i \in Indices(reqs, "attach") \cup Indices(reqs, "commit") :
        \/ IsInitiatingCommit(reqs, i)
        \/ \E k \in Indices(reqs, "get_xdg_surface") :
              k < i /\ reqs[k].surface = reqs[i].surface


\* C26 (flags and handles are monotonic): no step takes running from false to
\* true or configured from true to false, and no step leaves absent a handle
\* (base surface, buffer, shell-base, shell-surface and toplevel pair) that
\* was present before it.
C26_Monotonic ==
    [][ /\ (~state.running => ~state'.running)
        /\ (state.configured => state'.configured)
        /\ \A h \in {"base_surface", "buffer", "wm_base", "xdg_surface"} :
              is_some(state[h]) => is_some(state'[h])
      ]_vars

\* An event is still to be handled with the surface configured and running
\* false already.
C26_Witness ==
    /\ pc = "run"
    /\ queue # <<>>
    /\ ~state.running
    /\ state.configured


\* C27 (draw is numerically safe): for every width and height of the bounded
\* range, 0 included, no iteration of draw divides by zero or subtracts below
\* zero; every channel r, g, b, a lies in 0..255 before its conversion to a
\* byte, so the bytes of the file are the channel values themselves; the file
\* holds four bytes for each iteration, and none when width or height is 0.
C27_DrawNumericallySafe ==
    pc = "drawn" =>
        /\ \A p \in draw_iterations(size) :
              /\ draw_faults(p[1], p[2], size[1], size[2]) = {}
              /\ LET c == draw_channels(p[1], p[2], size[1], size[2])
                 IN  /\ \A v \in {c.r, c.g, c.b, c.a} : v \in 0..255
                     /\ PixelAt(file, p[1], p[2], size[1]) = <<c.b, c.g, c.r, c.a>>
        /\ Len(file) = 4 * Cardinality(draw_iterations(size))
        /\ (size[1] = 0 \/ size[2] = 0) => (file = <<>>)

\* draw has run on the widest image of the range, one pixel high.
C27_Witness ==
    /\ pc = "drawn"
    /\ size[1] = MaxDim
    /\ size[2] = 1
    /\ Len(file) = 4 * MaxDim

====
